---- MODULE Spec2Model ----
(***************************************************************************)
(* The Postgres frontier of workers/pg_worker.py: a table of work items    *)
(* (one row per url) that competing worker processes claim with            *)
(* UPDATE ... WHERE id IN (SELECT ... FOR UPDATE SKIP LOCKED LIMIT n),     *)
(* finalize with mark_done / mark_error and recover with                   *)
(* requeue_stale_items.  Every database call is a transaction of the       *)
(* READ COMMITTED isolation level: a statement reads the rows committed    *)
(* when it starts, takes its row locks one row at a time, re-evaluates its *)
(* WHERE clause on the latest committed version of a row it had to wait    *)
(* for (or, with SKIP LOCKED, passes over a locked row), and publishes     *)
(* its writes at commit.                                                   *)
(*                                                                         *)
(* Time is kept relative to now(): a row's last_attempt holds the whole    *)
(* minutes elapsed since the claim, and stops counting one minute past the *)
(* stale threshold, the only value the code ever compares it with.         *)
(***************************************************************************)
EXTENDS Integers, Sequences, FiniteSets, TLC

\* ---- configuration (environment variables of pg_worker.py) ----
MAX_ATTEMPTS == 2
STALE_THRESHOLD_MINUTES == 1
BATCH_SIZE == 2

\* ---- bounds of the model ----
NumUrls == 2
MaxUrlsPerCall == 2
MaxScore == 1
MaxFaults == 1

Urls == 1..NumUrls
Workers == {"w1", "w2"}
Watchdog == "wd"
Procs == Workers \cup {Watchdog}
NULL == "NULL"
NO_TIME == -1
AgeCap == STALE_THRESHOLD_MINUTES + 1

VARIABLES
    frontier,   \* the committed table: a sequence of rows, a row's id is its index
    pc,         \* each process's position in worker_loop / the watchdog loop
    phase,      \* each process's position inside its current database call
    cand,       \* rows the running statement has selected and not yet visited
    locked,     \* row locks the process's open transaction holds
    pending,    \* uncommitted new row versions of the open transaction
    items,      \* worker_loop's variable items: the batch fetch_and_lock returned
    todo,       \* the items of the batch the for loop has not reached yet
    cur,        \* the item of the current loop iteration
    enqueue,    \* the last add_urls call: its arguments and whether it raised
    stats,      \* the last get_stats call: where the store failed, whether the
                \*   call raised, and the mapping it returned
    faults,     \* crashes and storage errors so far (counted in FairSpec only)
    hist,       \* history, per row: holders, the workers that received it since it last
                \*   became in_progress; claims, the times fetch_and_lock returned it;
                \*   errors, the mark_error calls committed on it
    conc        \* history: per worker, the workers whose latest fetch_and_lock
                \*   overlapped its latest one, no other operation committed since

vars == <<frontier, pc, phase, cand, locked, pending, items, todo, cur, enqueue,
          stats, faults, hist, conc>>

Ids == DOMAIN frontier
NoWrites == [i \in {} |-> 0]

\* ---------------------------------------------------------------------------
\* Rows and the table
\* ---------------------------------------------------------------------------

\* A row as an INSERT that names url, score, metadata and state = 'queued'
\* leaves it: the remaining columns take the table's defaults.
NewRow(url, score, metadata) ==
    [url |-> url, score |-> score, metadata |-> metadata, state |-> "queued",
     attempt_count |-> 0, last_attempt |-> NO_TIME, worker_id |-> NULL,
     error_message |-> NULL]

HasUrl(tbl, url) == \E i \in DOMAIN tbl : tbl[i].url = url

\* INSERT ... ON CONFLICT (url) DO NOTHING, one row after the other.
RECURSIVE InsertDoNothing(_, _)
InsertDoNothing(tbl, rows) ==
    IF rows = <<>> THEN tbl
    ELSE InsertDoNothing(IF HasUrl(tbl, Head(rows).url) THEN tbl
                         ELSE Append(tbl, Head(rows)),
                         Tail(rows))

\* The copy of a row that RETURNING * hands to the worker (its last_attempt,
\* the instant of the claim, is left out: the worker never reads it).
Copy(id, r) ==
    [id |-> id, url |-> r.url, score |-> r.score, metadata |-> r.metadata,
     state |-> r.state, attempt_count |-> r.attempt_count,
     worker_id |-> r.worker_id, error_message |-> r.error_message]

ItemIds(batch) == {it.id : it \in batch}

\* Sequences over S of length at most n.
SeqsUpTo(S, n) == UNION {[1..k -> S] : k \in 0..n}

\* ---------------------------------------------------------------------------
\* Transactions
\* ---------------------------------------------------------------------------

\* Row locks that exclude nobody (the subquery without FOR UPDATE).
LockedByOther_never(p, id) == FALSE

\* Another open transaction holds the row's lock.
LockedByOther(p, id) == \E q \in Procs \ {p} : id \in locked[q]

\* A commit that clears the finished rows away.
Published_deletesDone(p) ==
    SelectSeq([id \in 1..Len(frontier) |->
                  IF id \in DOMAIN pending[p] THEN pending[p][id]
                  ELSE frontier[id]],
              LAMBDA r : r.state # "done")

\* The table once p's transaction has committed.
Published(p) ==
    [id \in 1..Len(frontier) |->
        IF id \in DOMAIN pending[p] THEN pending[p][id] ELSE frontier[id]]

NoHist == [holders |-> {}, claims |-> 0, errors |-> 0]

\* History after a commit by p that leaves the table tbl, returned the rows
\* of R to p (fetch_and_lock) and recorded a failure on the rows of E
\* (mark_error).
HistAfter(tbl, p, R, E) ==
    [id \in 1..Len(tbl) |->
        [holders |-> IF tbl[id].state # "in_progress" THEN {}
                     ELSE IF id \in R THEN hist[id].holders \cup {p}
                     ELSE hist[id].holders,
         claims |-> hist[id].claims + (IF id \in R THEN 1 ELSE 0),
         errors |-> hist[id].errors + (IF id \in E THEN 1 ELSE 0)]]

\* conn.commit(): the writes become visible and the locks are released.
CommitTx(p, R, E) ==
    /\ frontier' = Published(p)
    /\ hist' = HistAfter(Published(p), p, R, E)
    /\ locked' = [locked EXCEPT ![p] = {}]
    /\ pending' = [pending EXCEPT ![p] = NoWrites]
    /\ cand' = [cand EXCEPT ![p] = <<>>]
    /\ phase' = [phase EXCEPT ![p] = "idle"]

\* A rollback that lets the writes through.
RollbackTx_publishes(p) ==
    /\ frontier' = Published(p)
    /\ locked' = [locked EXCEPT ![p] = {}]
    /\ pending' = [pending EXCEPT ![p] = NoWrites]
    /\ cand' = [cand EXCEPT ![p] = <<>>]
    /\ phase' = [phase EXCEPT ![p] = "idle"]
    /\ UNCHANGED hist

\* conn.rollback(): the writes are dropped and the locks are released.
RollbackTx(p) ==
    /\ locked' = [locked EXCEPT ![p] = {}]
    /\ pending' = [pending EXCEPT ![p] = NoWrites]
    /\ cand' = [cand EXCEPT ![p] = <<>>]
    /\ phase' = [phase EXCEPT ![p] = "idle"]
    /\ UNCHANGED <<frontier, hist>>

\* ---------------------------------------------------------------------------
\* fetch_and_lock
\* ---------------------------------------------------------------------------

\* The WHERE clause without its test of state.
Eligible_noState(r) == r.attempt_count < MAX_ATTEMPTS

\* WHERE state = 'queued' AND attempt_count < MAX_ATTEMPTS
Eligible(r) == r.state = "queued" /\ r.attempt_count < MAX_ATTEMPTS

\* ORDER BY score DESC, id ASC
Before_idAscending(tbl, i, j) ==
    \/ tbl[i].score > tbl[j].score
    \/ tbl[i].score = tbl[j].score /\ i < j

\* ORDER BY score DESC, id DESC
Before(tbl, i, j) ==
    \/ tbl[i].score > tbl[j].score
    \/ tbl[i].score = tbl[j].score /\ i > j

RECURSIVE OrderBy(_, _)
OrderBy(tbl, S) ==
    IF S = {} THEN <<>>
    ELSE LET top == CHOOSE i \in S : \A j \in S \ {i} : Before(tbl, i, j)
         IN  <<top>> \o OrderBy(tbl, S \ {top})

\* The SET clause without its increment of attempt_count.
Claimed_noIncrement(r, w) ==
    [r EXCEPT !.state = "in_progress", !.last_attempt = 0, !.worker_id = w]

\* The SET clause without worker_id.
Claimed_noOwner(r, w) ==
    [r EXCEPT !.state = "in_progress", !.last_attempt = 0,
              !.attempt_count = @ + 1]

\* The SET clause without last_attempt = now().
Claimed_noTimestamp(r, w) ==
    [r EXCEPT !.state = "in_progress", !.attempt_count = @ + 1,
              !.worker_id = w]

\* SET state = 'in_progress', last_attempt = now(),
\*     attempt_count = attempt_count + 1, worker_id = WORKER_ID
Claimed(r, w) ==
    [r EXCEPT !.state = "in_progress", !.last_attempt = 0,
              !.attempt_count = @ + 1, !.worker_id = w]

InFetch(w) == pc[w] = "fetch" /\ phase[w] # "idle"

\* History: no two calls whose results could be compared.
NoConc == [w \in Workers |-> {}]

\* History: w's latest fetch_and_lock has no result (any more) that a
\* concurrent call's result could be compared with.
ConcWithout(w) ==
    [v \in Workers |-> IF v = w THEN {} ELSE conc[v] \ {w}]

\* The statement starts: the subquery reads the committed rows that pass its
\* WHERE clause, in its ORDER BY order.
FL_Begin(w) ==
    /\ pc[w] = "fetch" /\ phase[w] = "idle"
    /\ cand' = [cand EXCEPT ![w] =
                   OrderBy(frontier, {i \in Ids : Eligible(frontier[i])})]
    /\ phase' = [phase EXCEPT ![w] = "exec"]
    /\ conc' = [v \in Workers |->
                   IF v = w THEN {u \in Workers \ {w} : InFetch(u)}
                   ELSE IF InFetch(v) THEN conc[v] \cup {w}
                   ELSE conc[v] \ {w}]
    /\ UNCHANGED <<frontier, pc, locked, pending, items, todo, cur, enqueue, stats,
                   faults, hist>>

\* The LIMIT one row too late.
LimitReached_offByOne(w, batch_size) == Cardinality(locked[w]) > batch_size

\* LIMIT batch_size: the subquery has produced its batch_size rows.
LimitReached(w, batch_size) == Cardinality(locked[w]) >= batch_size

\* FOR UPDATE without SKIP LOCKED: the statement waits for a row's lock.
FL_Lock_waits(w, batch_size) ==
    /\ pc[w] = "fetch" /\ phase[w] = "exec"
    /\ cand[w] # <<>>
    /\ ~LimitReached(w, batch_size)
    /\ ~LockedByOther(w, Head(cand[w]))
    /\ locked' = [locked EXCEPT ![w] =
                     IF Eligible(frontier[Head(cand[w])])
                     THEN @ \cup {Head(cand[w])} ELSE @]
    /\ cand' = [cand EXCEPT ![w] = Tail(@)]
    /\ UNCHANGED <<frontier, pc, phase, pending, items, todo, cur, enqueue, stats,
                   faults, hist, conc>>

\* FOR UPDATE SKIP LOCKED LIMIT batch_size, one selected row at a time: a row
\* locked by another transaction is passed over; a free row is locked if its
\* latest committed version still passes the WHERE clause.
FL_Lock(w, batch_size) ==
    /\ pc[w] = "fetch" /\ phase[w] = "exec"
    /\ cand[w] # <<>>
    /\ ~LimitReached(w, batch_size)
    /\ LET id == Head(cand[w])
       IN  locked' = [locked EXCEPT ![w] =
                         IF ~LockedByOther(w, id) /\ Eligible(frontier[id])
                         THEN @ \cup {id} ELSE @]
    /\ cand' = [cand EXCEPT ![w] = Tail(@)]
    /\ UNCHANGED <<frontier, pc, phase, pending, items, todo, cur, enqueue, stats,
                   faults, hist, conc>>

\* The outer UPDATE writes the new version of every row the subquery locked.
FL_Update(w, batch_size) ==
    /\ pc[w] = "fetch" /\ phase[w] = "exec"
    /\ cand[w] = <<>> \/ LimitReached(w, batch_size)
    /\ pending' = [pending EXCEPT ![w] =
                      [id \in locked[w] |-> Claimed(frontier[id], w)]]
    /\ cand' = [cand EXCEPT ![w] = <<>>]
    /\ phase' = [phase EXCEPT ![w] = "commit"]
    /\ UNCHANGED <<frontier, pc, locked, items, todo, cur, enqueue, stats, faults,
                   hist, conc>>

\* conn.commit() and return: the rows of RETURNING * become items; an empty
\* batch sends the loop to its sleep.
FL_Commit(w) ==
    /\ pc[w] = "fetch" /\ phase[w] = "commit"
    /\ LET rows == {Copy(id, pending[w][id]) : id \in DOMAIN pending[w]}
       IN  /\ items' = [items EXCEPT ![w] = rows]
           /\ todo' = [todo EXCEPT ![w] = rows]
           /\ pc' = [pc EXCEPT ![w] = IF rows = {} THEN "sleep" ELSE "process"]
    /\ CommitTx(w, DOMAIN pending[w], {})
    /\ UNCHANGED <<cur, enqueue, stats, faults, conc>>

fetch_and_lock(w, batch_size) ==
    \/ FL_Begin(w)
    \/ FL_Lock(w, batch_size)
    \/ FL_Update(w, batch_size)
    \/ FL_Commit(w)

\* ---------------------------------------------------------------------------
\* mark_done, mark_error
\* ---------------------------------------------------------------------------

\* The loop moves on to its next item, or past the for loop.
NextItem(w) ==
    /\ pc' = [pc EXCEPT ![w] = IF todo[w] = {} THEN "requeue" ELSE "process"]
    /\ cur' = [cur EXCEPT ![w] = 0]

\* The metadata arguments of mark_done: none (the default, which worker_loop
\* uses), or a mapping.
MetadataArgs == {NULL, "{result}"}

\* The SET clause without worker_id = NULL.
Done_keepsOwner(r, metadata) == [r EXCEPT !.state = "done"]

\* A SET clause that takes in what update_data holds.
Done_storesMetadata(r, metadata) ==
    [r EXCEPT !.state = "done", !.worker_id = NULL,
              !.metadata = IF metadata = NULL THEN @ ELSE metadata]

\* mark_done(item_id, metadata): update_data receives json.dumps(metadata),
\* the statement is SET state = 'done', worker_id = NULL with item_id as its
\* one parameter.
Done(r, metadata) == [r EXCEPT !.state = "done", !.worker_id = NULL]

\* The CASE with > in place of >=.
Failed_offByOne(r, message) ==
    [r EXCEPT !.state = IF r.attempt_count > MAX_ATTEMPTS
                        THEN "error" ELSE "queued",
              !.error_message = message, !.worker_id = NULL]

\* The CASE with the retry one attempt short.
Failed_early(r, message) ==
    [r EXCEPT !.state = IF r.attempt_count >= MAX_ATTEMPTS - 1
                        THEN "error" ELSE "queued",
              !.error_message = message, !.worker_id = NULL]

\* The SET clause without worker_id = NULL.
Failed_keepsOwner(r, message) ==
    [r EXCEPT !.state = IF r.attempt_count >= MAX_ATTEMPTS
                        THEN "error" ELSE "queued",
              !.error_message = message]

\* SET state = CASE WHEN attempt_count >= MAX_ATTEMPTS THEN 'error'
\*                  ELSE 'queued' END, error_message = message, worker_id = NULL
Failed(r, message) ==
    [r EXCEPT !.state = IF r.attempt_count >= MAX_ATTEMPTS
                        THEN "error" ELSE "queued",
              !.error_message = message, !.worker_id = NULL]

\* The UPDATE with a fence, WHERE id = item_id AND worker_id = WORKER_ID: it
\* writes nothing unless the row is still the caller's.
UpdateById_fenced(w, id, new) ==
    /\ phase[w] = "idle"
    /\ id \in Ids
    /\ ~LockedByOther(w, id)
    /\ locked' = [locked EXCEPT ![w] =
                     IF frontier[id].worker_id = w THEN {id} ELSE {}]
    /\ pending' = [pending EXCEPT ![w] =
                      IF frontier[id].worker_id = w THEN [i \in {id} |-> new]
                      ELSE NoWrites]
    /\ phase' = [phase EXCEPT ![w] = "commit"]
    /\ UNCHANGED <<frontier, pc, cand, items, todo, cur, enqueue, stats, faults,
                   hist, conc>>

\* UPDATE frontier SET ... WHERE id = item_id: the statement waits for the
\* row's lock, then writes the new version of the latest committed row.
UpdateById(w, id, new) ==
    /\ phase[w] = "idle"
    /\ id \in Ids
    /\ ~LockedByOther(w, id)
    /\ locked' = [locked EXCEPT ![w] = {id}]
    /\ pending' = [pending EXCEPT ![w] = [i \in {id} |-> new]]
    /\ phase' = [phase EXCEPT ![w] = "commit"]
    /\ UNCHANGED <<frontier, pc, cand, items, todo, cur, enqueue, stats, faults,
                   hist, conc>>

\* mark_done(item['id']) of line 268: no metadata.
MD_Exec(w) ==
    /\ pc[w] = "mark_done"
    /\ UpdateById(w, cur[w], Done(frontier[cur[w]], NULL))

\* The message of the call at line 270 and the one of the handler at line 273.
Message(w) == IF pc[w] = "mark_error" THEN "Processing failed" ELSE "str(e)"

ME_Exec(w) ==
    /\ pc[w] \in {"mark_error", "except"}
    /\ UpdateById(w, cur[w], Failed(frontier[cur[w]], Message(w)))

Finalize_Commit(w) ==
    /\ pc[w] \in {"mark_done", "mark_error", "except"}
    /\ phase[w] = "commit"
    /\ CommitTx(w, {}, IF pc[w] = "mark_done" THEN {} ELSE {cur[w]})
    /\ NextItem(w)
    /\ conc' = NoConc
    /\ UNCHANGED <<items, todo, enqueue, stats, faults>>

mark_done(w) == MD_Exec(w) \/ (pc[w] = "mark_done" /\ Finalize_Commit(w))

mark_error(w) ==
    ME_Exec(w) \/ (pc[w] \in {"mark_error", "except"} /\ Finalize_Commit(w))

\* ---------------------------------------------------------------------------
\* requeue_stale_items
\* ---------------------------------------------------------------------------

\* The WHERE clause with the comparison of last_attempt turned round.
Stale_reversed(r) ==
    /\ r.state = "in_progress"
    /\ r.last_attempt # NO_TIME
    /\ r.last_attempt <= STALE_THRESHOLD_MINUTES
    /\ r.attempt_count < MAX_ATTEMPTS

\* The WHERE clause without its test of attempt_count.
Stale_noBudget(r) ==
    /\ r.state = "in_progress"
    /\ r.last_attempt # NO_TIME
    /\ r.last_attempt > STALE_THRESHOLD_MINUTES

\* WHERE state = 'in_progress' AND last_attempt < now - STALE_THRESHOLD_MINUTES
\*   AND attempt_count < MAX_ATTEMPTS
Stale(r) ==
    /\ r.state = "in_progress"
    /\ r.last_attempt # NO_TIME
    /\ r.last_attempt > STALE_THRESHOLD_MINUTES
    /\ r.attempt_count < MAX_ATTEMPTS

\* A SET clause that gives the row its attempts back.
Requeued_resetsAttempts(r) ==
    [r EXCEPT !.state = "queued", !.worker_id = NULL, !.attempt_count = 0]

\* SET state = 'queued', worker_id = NULL
Requeued(r) == [r EXCEPT !.state = "queued", !.worker_id = NULL]

\* The orders in which the UPDATE's scan of the table can meet the rows of S:
\* the statement has no ORDER BY, the order is the one of the plan and of the
\* rows' places in the table's file.
ScanOrders(S) ==
    {f \in [1..Cardinality(S) -> S] :
        \A i, j \in DOMAIN f : i # j => f[i] # f[j]}

RequeuePcs == {"startup", "requeue", "wd_requeue"}

\* Where requeue_stale_items returns to.
AfterRequeue(p) == IF p = Watchdog THEN "wd_sleep" ELSE "fetch"

\* The statement starts: it reads the committed rows that pass its WHERE clause.
RQ_Begin(p) ==
    /\ pc[p] \in RequeuePcs /\ phase[p] = "idle"
    /\ LET sel == {i \in Ids : Stale(frontier[i])}
       IN  /\ \E order \in ScanOrders(sel) :
                  cand' = [cand EXCEPT ![p] = order]
           /\ phase' = [phase EXCEPT ![p] = IF sel = {} THEN "commit" ELSE "exec"]
    /\ UNCHANGED <<frontier, pc, locked, pending, items, todo, cur, enqueue, stats,
                   faults, hist, conc>>

\* The UPDATE without the second look at a row it had to wait for.
RQ_Lock_noRecheck(p) ==
    /\ pc[p] \in RequeuePcs /\ phase[p] = "exec"
    /\ cand[p] # <<>>
    /\ LET id == Head(cand[p])
       IN  /\ ~LockedByOther(p, id)
           /\ locked' = [locked EXCEPT ![p] = @ \cup {id}]
           /\ pending' = [pending EXCEPT ![p] =
                  [i \in DOMAIN @ \cup {id} |->
                      IF i = id THEN Requeued(frontier[id]) ELSE @[i]]]
    /\ cand' = [cand EXCEPT ![p] = Tail(@)]
    /\ phase' = [phase EXCEPT ![p] = IF Tail(cand[p]) = <<>> THEN "commit" ELSE "exec"]
    /\ UNCHANGED <<frontier, pc, items, todo, cur, enqueue, stats, faults, hist, conc>>

\* One selected row: the statement waits for the row's lock, re-evaluates the
\* WHERE clause on the latest committed version and writes the new version.
RQ_Lock(p) ==
    /\ pc[p] \in RequeuePcs /\ phase[p] = "exec"
    /\ cand[p] # <<>>
    /\ LET id == Head(cand[p])
       IN  /\ ~LockedByOther(p, id)
           /\ IF Stale(frontier[id])
              THEN /\ locked' = [locked EXCEPT ![p] = @ \cup {id}]
                   /\ pending' = [pending EXCEPT ![p] =
                          [i \in DOMAIN @ \cup {id} |->
                              IF i = id THEN Requeued(frontier[id]) ELSE @[i]]]
              ELSE UNCHANGED <<locked, pending>>
    /\ cand' = [cand EXCEPT ![p] = Tail(@)]
    /\ phase' = [phase EXCEPT ![p] = IF Tail(cand[p]) = <<>> THEN "commit" ELSE "exec"]
    /\ UNCHANGED <<frontier, pc, items, todo, cur, enqueue, stats, faults, hist, conc>>

\* conn.commit() and return.  In worker_loop the pass is over: the batch in
\* items is not read again.
RQ_Commit(p) ==
    /\ pc[p] \in RequeuePcs /\ phase[p] = "commit"
    /\ CommitTx(p, {}, {})
    /\ pc' = [pc EXCEPT ![p] = AfterRequeue(p)]
    /\ items' = [w \in Workers |-> IF w = p THEN {} ELSE items[w]]
    /\ conc' = NoConc
    /\ UNCHANGED <<todo, cur, enqueue, stats, faults>>

\* count = cur.rowcount, the value requeue_stale_items returns.
RQ_Count(p) == Cardinality(DOMAIN pending[p])

requeue_stale_items(p) == RQ_Begin(p) \/ RQ_Lock(p) \/ RQ_Commit(p)

\* ---------------------------------------------------------------------------
\* worker_loop and the watchdog loop
\* ---------------------------------------------------------------------------

\* A loop that goes on to the next item when process_item returns False.
ProcessItem_dropsFailure(w) ==
    /\ pc[w] = "process"
    /\ \E item \in todo[w], outcome \in {"True", "False", "raise"} :
        /\ cur' = [cur EXCEPT ![w] = IF outcome = "False" THEN 0 ELSE item.id]
        /\ todo' = [todo EXCEPT ![w] = @ \ {item}]
        /\ pc' = [pc EXCEPT ![w] =
                     CASE outcome = "True" -> "mark_done"
                       [] outcome = "False" ->
                              IF todo[w] = {item} THEN "requeue" ELSE "process"
                       [] OTHER -> "except"]
    /\ UNCHANGED <<frontier, phase, cand, locked, pending, items, enqueue, stats,
                   faults, hist, conc>>

\* process_item(item) for the next item of the batch: the collaborator returns
\* True, returns False or raises.
ProcessItem(w) ==
    /\ pc[w] = "process"
    /\ \E item \in todo[w], outcome \in {"True", "False", "raise"} :
        /\ cur' = [cur EXCEPT ![w] = item.id]
        /\ todo' = [todo EXCEPT ![w] = @ \ {item}]
        /\ pc' = [pc EXCEPT ![w] = CASE outcome = "True" -> "mark_done"
                                     [] outcome = "False" -> "mark_error"
                                     [] OTHER -> "except"]
    /\ UNCHANGED <<frontier, phase, cand, locked, pending, items, enqueue, stats,
                   faults, hist, conc>>

\* time.sleep(5) of the empty batch and of the outer handler; time.sleep(60)
\* of the watchdog.
WakeUp(p) ==
    /\ pc[p] \in {"sleep", "backoff", "wd_sleep"}
    /\ pc' = [pc EXCEPT ![p] = IF p = Watchdog THEN "wd_requeue" ELSE "fetch"]
    /\ UNCHANGED <<frontier, phase, cand, locked, pending, items, todo, cur,
                   enqueue, stats, faults, hist, conc>>

worker_loop(w) ==
    \/ requeue_stale_items(w)
    \/ fetch_and_lock(w, BATCH_SIZE)
    \/ ProcessItem(w)
    \/ mark_done(w)
    \/ mark_error(w)
    \/ WakeUp(w)

watchdog == requeue_stale_items(Watchdog) \/ WakeUp(Watchdog)

DbCallPcs == RequeuePcs \cup {"fetch", "mark_done", "mark_error", "except"}

\* Where an exception raised by the database call at pc[p] takes the process:
\* the handler of the inner try (line 271), the handler of the outer try
\* (line 281), or out of the process (no handler encloses line 251 nor the
\* watchdog's call).
OnException(p) ==
    CASE pc[p] \in {"mark_done", "mark_error"} -> "except"
      [] pc[p] \in {"fetch", "except", "requeue"} -> "backoff"
      [] OTHER -> "stopped"

\* The database call at pc[p] raises (connection lost, deadlock, ...): the
\* transaction is rolled back and the exception propagates.
StorageErrorEffect(p) ==
    /\ pc[p] \in DbCallPcs
    /\ RollbackTx(p)
    /\ pc' = [pc EXCEPT ![p] = OnException(p)]
    /\ IF p \in Workers
       THEN /\ todo' = [todo EXCEPT ![p] =
                   IF OnException(p) = "except" THEN @ ELSE {}]
            /\ cur' = [cur EXCEPT ![p] =
                   IF OnException(p) = "except" THEN @ ELSE 0]
            /\ items' = [items EXCEPT ![p] =
                   IF OnException(p) = "stopped" THEN {} ELSE @]
            /\ conc' = IF pc[p] = "fetch" THEN ConcWithout(p) ELSE conc
       ELSE UNCHANGED <<todo, cur, items, conc>>
    /\ UNCHANGED <<enqueue, stats>>

\* The process dies or is interrupted (KeyboardInterrupt): its connection's
\* open transaction is rolled back, its memory is gone.
CrashEffect(p) ==
    /\ pc[p] # "stopped"
    /\ RollbackTx(p)
    /\ pc' = [pc EXCEPT ![p] = "stopped"]
    /\ IF p \in Workers
       THEN /\ todo' = [todo EXCEPT ![p] = {}]
            /\ cur' = [cur EXCEPT ![p] = 0]
            /\ items' = [items EXCEPT ![p] = {}]
            /\ conc' = ConcWithout(p)
       ELSE UNCHANGED <<todo, cur, items, conc>>
    /\ UNCHANGED <<enqueue, stats>>

StorageError(p) == StorageErrorEffect(p) /\ UNCHANGED faults

Crash(p) == CrashEffect(p) /\ UNCHANGED faults

\* python pg_worker.py [watchdog]: the process is started (again).
Start(p) ==
    /\ pc[p] = "stopped"
    /\ pc' = [pc EXCEPT ![p] = IF p = Watchdog THEN "wd_requeue" ELSE "startup"]
    /\ UNCHANGED <<frontier, phase, cand, locked, pending, items, todo, cur,
                   enqueue, stats, faults, hist, conc>>

\* ---------------------------------------------------------------------------
\* Producers
\* ---------------------------------------------------------------------------

\* Urls are opaque keys: they are numbered in the order in which they first
\* reach the table.
InOrderOfArrival(tbl) == \A i \in DOMAIN tbl : tbl[i].url = i

\* The columns the INSERT of add_urls names, and the tuple it supplies for a url.
AddUrlsColumns == <<"url", "score", "metadata", "state">>

\* json.dumps(metadata or {})
Dumps(metadata) == IF metadata = NULL THEN "{}" ELSE metadata

AddUrlsValues(url, score, metadata) == <<url, score, Dumps(metadata)>>

\* add_urls(urls, score, metadata): execute_values sends one INSERT with a
\* tuple per url (none at all for an empty list).  The server rejects an
\* INSERT whose tuples have fewer expressions than it names columns; the
\* function rolls back and raises.  The statement is one step: it waits for
\* no row lock, and what it leaves does not depend on what runs beside it.
add_urls(urls, score, metadata) ==
    LET accepted == \A i \in DOMAIN urls :
                       Len(AddUrlsValues(urls[i], score, metadata))
                           = Len(AddUrlsColumns)
        rows == [i \in DOMAIN urls |-> NewRow(urls[i], score, Dumps(metadata))]
        tbl == IF accepted THEN InsertDoNothing(frontier, rows) ELSE frontier
    IN  /\ InOrderOfArrival(tbl)
        /\ frontier' = tbl
        /\ hist' = hist \o [i \in 1..(Len(tbl) - Len(frontier)) |-> NoHist]
        /\ enqueue' = [urls |-> urls, score |-> score, metadata |-> metadata,
                        raised |-> ~accepted]
        /\ UNCHANGED <<pc, phase, cand, locked, pending, items, todo, cur,
                       stats, faults, conc>>

\* migrate_cursor_file(): one INSERT ... ON CONFLICT (url) DO NOTHING per url
\* of the cursor file, with score 0 and state 'queued', committed together.
migrate_cursor_file(urls) ==
    LET rows == [i \in DOMAIN urls |-> NewRow(urls[i], 0, NULL)]
        tbl == InsertDoNothing(frontier, rows)
    IN  /\ urls # <<>>
        /\ InOrderOfArrival(tbl)
        /\ frontier' = tbl
        /\ hist' = hist \o [i \in 1..(Len(tbl) - Len(frontier)) |-> NoHist]
        /\ UNCHANGED <<pc, phase, cand, locked, pending, items, todo, cur,
                       enqueue, stats, faults, conc>>

\* ---------------------------------------------------------------------------
\* get_stats
\* ---------------------------------------------------------------------------

\* The group of a state that row r opens.
NewGroup(r) ==
    [state |-> r.state, count |-> 1, sum_score |-> r.score,
     max_attempts |-> r.attempt_count]

\* A group that forgets the rows it has.
Grouped_lastWins(g, r) == NewGroup(r)

\* The group g with row r added: COUNT(*), the sum behind AVG(score), and
\* MAX(attempt_count).
Grouped(g, r) ==
    [g EXCEPT !.count = @ + 1,
              !.sum_score = @ + r.score,
              !.max_attempts = IF r.attempt_count > @ THEN r.attempt_count ELSE @]

\* SELECT state, COUNT(*), AVG(score), MAX(attempt_count) FROM frontier
\* GROUP BY state, over the first n rows of the committed table.
RECURSIVE GroupByState(_, _)
GroupByState(tbl, n) ==
    IF n = 0 THEN [s \in {} |-> 0]
    ELSE LET acc == GroupByState(tbl, n - 1)
             r == tbl[n]
         IN  [s \in DOMAIN acc \cup {r.state} |->
                 IF s # r.state THEN acc[s]
                 ELSE IF s \in DOMAIN acc THEN Grouped(acc[s], r)
                 ELSE NewGroup(r)]

\* {row['state']: dict(row) for row in rows} over the table tbl; avg_score is
\* the quotient of the pair.
StatsOf(tbl) ==
    LET groups == GroupByState(tbl, Len(tbl))
    IN  [s \in DOMAIN groups |->
            [state |-> s, count |-> groups[s].count,
             avg_score |-> <<groups[s].sum_score, groups[s].count>>,
             max_attempts |-> groups[s].max_attempts]]

\* get_stats() on a store that answers: the function runs one SELECT on the
\* committed table and writes nothing.
get_stats == StatsOf(frontier)

\* Where the store can fail a get_stats call: nowhere; at get_connection()
\* (line 213, before the try); at the cursor, the SELECT or fetchall (inside
\* the try).
StatsFaults == {"none", "get_connection", "execute"}

\* return {}
EmptyMapping == [s \in {} |-> NULL]

\* No get_stats call yet.
NoStats == [failed |-> "none", raised |-> FALSE, result |-> EmptyMapping]

\* What a get_stats() call comes to: an exception of get_connection() leaves
\* the function; an exception inside the try is logged and {} is returned;
\* otherwise the mapping of the SELECT's rows is returned.
GetStatsOutcome(fault) ==
    CASE fault = "get_connection" ->
             [failed |-> fault, raised |-> TRUE, result |-> NULL]
      [] fault = "execute" ->
             [failed |-> fault, raised |-> FALSE, result |-> EmptyMapping]
      [] OTHER ->
             [failed |-> fault, raised |-> FALSE, result |-> get_stats]

\* A call of get_stats() by an operator or a dashboard: one SELECT, which
\* waits for no lock and reads the committed rows.
get_stats_call ==
    /\ \E fault \in StatsFaults : stats' = GetStatsOutcome(fault)
    /\ UNCHANGED <<frontier, pc, phase, cand, locked, pending, items, todo, cur,
                   enqueue, faults, hist, conc>>

\* ---------------------------------------------------------------------------
\* The clock
\* ---------------------------------------------------------------------------

Aged(r) ==
    IF r.last_attempt = NO_TIME \/ r.last_attempt >= AgeCap THEN r
    ELSE [r EXCEPT !.last_attempt = @ + 1]

\* No transaction is open.
Quiet == \A p \in Procs : phase[p] = "idle"

\* One minute passes.  A database call is short: it reads the clock once
\* (now() is the start of its transaction, the threshold of
\* requeue_stale_items is computed at line 159) and is over within that
\* minute.
Tick ==
    /\ Quiet
    /\ frontier' = [i \in 1..Len(frontier) |-> Aged(frontier[i])]
    /\ UNCHANGED <<pc, phase, cand, locked, pending, items, todo, cur, enqueue, stats,
                   faults, hist, conc>>

\* ---------------------------------------------------------------------------
\* The system
\* ---------------------------------------------------------------------------

Init ==
    /\ frontier = <<>>
    /\ pc = [p \in Procs |-> IF p = Watchdog THEN "wd_requeue" ELSE "startup"]
    /\ phase = [p \in Procs |-> "idle"]
    /\ cand = [p \in Procs |-> <<>>]
    /\ locked = [p \in Procs |-> {}]
    /\ pending = [p \in Procs |-> NoWrites]
    /\ items = [w \in Workers |-> {}]
    /\ todo = [w \in Workers |-> {}]
    /\ cur = [w \in Workers |-> 0]
    /\ enqueue = [urls |-> <<>>, score |-> 0, metadata |-> NULL,
                   raised |-> FALSE]
    /\ stats = NoStats
    /\ faults = 0
    /\ hist = <<>>
    /\ conc = NoConc

Producer ==
    \/ \E urls \in SeqsUpTo(Urls, MaxUrlsPerCall) : migrate_cursor_file(urls)

\* A step of worker_loop with a collaborator that reports a failure by its
\* return value, as process_item does, and never raises.
WorkerStep(w) == worker_loop(w) /\ pc'[w] # "except"

\* The frontier at work: the workers' loops over a table the migration
\* script fills, the clock, and workers that die.
Next ==
    \/ \E w \in Workers : WorkerStep(w)
    \/ \E w \in Workers : Crash(w)
    \/ Producer
    \/ Tick

Spec == Init /\ [][Next]_vars

\* A crash that counts against the budget of faults.
CrashCounted(p) ==
    /\ faults < MaxFaults
    /\ faults' = faults + 1
    /\ CrashEffect(p)

\* The frontier under supervision: the workers and the watchdog over one work
\* item, a bounded number of crashes, and every stopped process started again.
NextFair ==
    \/ \E w \in Workers : WorkerStep(w)
    \/ watchdog
    \/ \E p \in Procs : CrashCounted(p)
    \/ \E p \in Procs : Start(p)
    \/ migrate_cursor_file(<<1>>)
    \/ Tick

\* Every process that can take a step of its loop eventually takes one, a
\* stopped process is eventually started again, and time passes: the short
\* database calls leave moments at which none is open, again and again, and
\* the clock moves on at some of them.
FairSpec ==
    /\ Init /\ [][NextFair]_vars
    /\ \A w \in Workers : WF_vars(WorkerStep(w))
    /\ WF_vars(watchdog)
    /\ \A p \in Procs : WF_vars(Start(p))
    /\ []<>Quiet
    /\ SF_vars(Tick)

\* Calls of add_urls, with duplicates inside a call and across calls.
Enqueue ==
    \E urls \in SeqsUpTo(Urls, MaxUrlsPerCall), score \in 0..MaxScore :
        add_urls(urls, score, NULL)

\* The producers: add_urls and the migration script beside one worker's
\* loop, which takes the rows that are there through their states.
NextEnqueue ==
    \/ Enqueue
    \/ Producer
    \/ WorkerStep("w1")
    \/ Tick

EnqueueSpec == Init /\ [][NextEnqueue]_vars

\* The frontier on an unreliable store: a worker whose database calls can
\* fail at any point and whose collaborator can raise, started again when an
\* exception has ended it.
NextFault ==
    \/ worker_loop("w1")
    \/ StorageError("w1")
    \/ Start("w1")
    \/ Producer
    \/ Tick

FaultSpec == Init /\ [][NextFault]_vars

\* The frontier with a collaborator that can raise: one worker whose
\* process_item returns True, returns False or raises, beside a second worker,
\* on a store that does not fail.
NextLoop ==
    \/ worker_loop("w1")
    \/ WorkerStep("w2")
    \/ Producer
    \/ Tick

LoopSpec == Init /\ [][NextLoop]_vars

\* The watchdog on an unreliable store: python pg_worker.py watchdog, whose
\* database call can fail and which nobody interrupts, beside a worker whose
\* rows it reaps; a supervisor starts it again when it has ended.
NextWatchdog ==
    \/ watchdog
    \/ StorageError(Watchdog)
    \/ Start(Watchdog)
    \/ WorkerStep("w1")
    \/ Producer
    \/ Tick

WatchdogSpec == Init /\ [][NextWatchdog]_vars

\* The frontier under observation: get_stats calls on a store that can fail
\* them, beside a worker's loop, the migration script and the clock.
NextStats ==
    \/ get_stats_call
    \/ WorkerStep("w1")
    \/ Producer
    \/ Tick

StatsSpec == Init /\ [][NextStats]_vars

\* What a row of the table can look like between two operations: never
\* claimed; failed once and queued again; in_progress, claimed by a worker
\* process that has died since; done; failed MAX_ATTEMPTS times.  The score
\* is the producer's.
RowShapes(url) ==
    LET fresh == NewRow(url, 0, NULL)
    IN  {[r EXCEPT !.score = sc] :
            sc \in 0..MaxScore,
            r \in {fresh,
                   [fresh EXCEPT !.attempt_count = 1, !.last_attempt = AgeCap,
                                 !.error_message = "Processing failed"],
                   [fresh EXCEPT !.state = "in_progress", !.attempt_count = 1,
                                 !.last_attempt = 0, !.worker_id = "w0"],
                   [fresh EXCEPT !.state = "done", !.attempt_count = 1,
                                 !.last_attempt = AgeCap],
                   [fresh EXCEPT !.state = "error",
                                 !.attempt_count = MAX_ATTEMPTS,
                                 !.last_attempt = AgeCap,
                                 !.error_message = "Processing failed"]}}

\* The tables of up to NumUrls such rows.
Tables ==
    UNION {{tbl \in [1..n -> UNION {RowShapes(u) : u \in Urls}] :
               InOrderOfArrival(tbl)} : n \in 1..NumUrls}

\* History that agrees with the row.
HistOf(r) ==
    [holders |-> {}, claims |-> r.attempt_count,
     errors |-> IF r.error_message = NULL THEN 0
                ELSE IF r.state = "error" THEN MAX_ATTEMPTS ELSE 1]

\* Both workers are about to call fetch_and_lock on some table.
InitClaim ==
    /\ frontier \in Tables
    /\ hist = [id \in DOMAIN frontier |-> HistOf(frontier[id])]
    /\ pc = [p \in Procs |-> IF p = Watchdog THEN "wd_sleep" ELSE "fetch"]
    /\ phase = [p \in Procs |-> "idle"]
    /\ cand = [p \in Procs |-> <<>>]
    /\ locked = [p \in Procs |-> {}]
    /\ pending = [p \in Procs |-> NoWrites]
    /\ items = [w \in Workers |-> {}]
    /\ todo = [w \in Workers |-> {}]
    /\ cur = [w \in Workers |-> 0]
    /\ enqueue = [urls |-> <<>>, score |-> 0, metadata |-> NULL,
                   raised |-> FALSE]
    /\ stats = NoStats
    /\ faults = 0
    /\ conc = NoConc

\* The batch sizes of the two callers: one smaller than the table, one not.
ClaimBatch(w) == IF w = "w1" THEN 1 ELSE BATCH_SIZE

\* One fetch_and_lock call by each worker, their steps interleaved.
NextClaim == \E w \in Workers : fetch_and_lock(w, ClaimBatch(w))

ClaimSpec == InitClaim /\ [][NextClaim]_vars

\* One fetch_and_lock(1) call by each worker, their steps interleaved.
NextRace == \E w \in Workers : fetch_and_lock(w, 1)

RaceSpec == InitClaim /\ [][NextRace]_vars

\* What an in_progress row can look like when the reaper runs: claimed a
\* moment ago; claimed long ago by a worker that hangs or has died, with
\* attempts left or on its last attempt.
ReapShapes(url) ==
    LET claimed == [NewRow(url, 0, NULL) EXCEPT !.state = "in_progress",
                                                !.attempt_count = 1,
                                                !.last_attempt = 0,
                                                !.worker_id = "w0"]
    IN  {claimed,
         [claimed EXCEPT !.last_attempt = AgeCap],
         [claimed EXCEPT !.last_attempt = AgeCap,
                         !.attempt_count = MAX_ATTEMPTS]}

\* The tables of up to NumUrls rows, in_progress or not.
ReapTables ==
    UNION {{tbl \in [1..n -> UNION {RowShapes(u) \cup ReapShapes(u) : u \in Urls}] :
               InOrderOfArrival(tbl)} : n \in 1..NumUrls}

\* The two workers have finished a pass and the watchdog has woken up: all
\* three are about to call requeue_stale_items on some table.
InitReap ==
    /\ frontier \in ReapTables
    /\ hist = [id \in DOMAIN frontier |-> HistOf(frontier[id])]
    /\ pc = [p \in Procs |-> IF p = Watchdog THEN "wd_requeue" ELSE "requeue"]
    /\ phase = [p \in Procs |-> "idle"]
    /\ cand = [p \in Procs |-> <<>>]
    /\ locked = [p \in Procs |-> {}]
    /\ pending = [p \in Procs |-> NoWrites]
    /\ items = [w \in Workers |-> {}]
    /\ todo = [w \in Workers |-> {}]
    /\ cur = [w \in Workers |-> 0]
    /\ enqueue = [urls |-> <<>>, score |-> 0, metadata |-> NULL,
                   raised |-> FALSE]
    /\ stats = NoStats
    /\ faults = 0
    /\ conc = NoConc

\* Calls of requeue_stale_items and nothing else: one by each worker and the
\* watchdog's, one after the other, their steps interleaved in any way, within
\* one minute.
NextReap ==
    \/ \E p \in Procs : requeue_stale_items(p)
    \/ WakeUp(Watchdog)

ReapSpec == InitReap /\ [][NextReap]_vars

\* Contention: from the same start the workers go on with their loops and the
\* watchdog with its own, so that calls of fetch_and_lock, mark_done,
\* mark_error and requeue_stale_items meet on the same rows.
NextContend ==
    \/ \E w \in Workers : WorkerStep(w)
    \/ watchdog

ContendSpec == InitReap /\ [][NextContend]_vars

\* ---------------------------------------------------------------------------
\* Properties
\* ---------------------------------------------------------------------------

\* The rows w has received from fetch_and_lock and not yet finalized.
Held(w) == ItemIds(todo[w]) \cup (IF cur[w] = 0 THEN {} ELSE {cur[w]})

\* The step is the commit of w's fetch_and_lock, which returns items'[w].
FetchReturns(w) ==
    /\ pc[w] = "fetch" /\ phase[w] = "commit"
    /\ pc'[w] \in {"process", "sleep"}

\* The step is the commit of p's requeue_stale_items.
RequeueReturns(p) ==
    /\ pc[p] \in RequeuePcs /\ phase[p] = "commit"
    /\ phase'[p] = "idle" /\ pc'[p] = AfterRequeue(p)

\* w's and v's latest fetch_and_lock calls ran concurrently, nothing but
\* their own steps has changed the table since, and both have returned.
ConcurrentReturned(w, v) ==
    /\ v \in conc[w]
    /\ ~InFetch(w) /\ ~InFetch(v)

C2_OneUnfinalizedHolder ==
    \A id \in Ids :
        Cardinality({w \in Workers : pc[w] # "stopped" /\ id \in Held(w)}) <= 1

\* C2, amended: at most one worker has received a row since the row last
\* became in_progress, and it is the row's worker_id; a second worker holds
\* an unfinalized copy only after requeue_stale_items or mark_error returned
\* the row to queued.
C2_OneLeasePerInProgressPeriod ==
    \A id \in Ids :
        /\ Cardinality(hist[id].holders) <= 1
        /\ \A w \in hist[id].holders :
               frontier[id].state = "in_progress" /\ frontier[id].worker_id = w

\* A row is leased to one worker while another still holds an earlier copy.
C2_Witness ==
    \E id \in Ids : \E w \in Workers : \E v \in Workers \ {w} :
        /\ hist[id].holders = {w}
        /\ id \in Held(w) /\ id \in Held(v)
        /\ pc[w] # "stopped" /\ pc[v] # "stopped"

\* C3: every row ever enqueued eventually reaches done or error.
C3_NoWorkLoss ==
    \A id \in Urls :
        (id \in Ids) ~> (id \in Ids /\ frontier[id].state \in {"done", "error"})

LegalTransition(a, b) ==
    \/ a = b
    \/ a = "queued" /\ b = "in_progress"
    \/ a = "in_progress" /\ b \in {"done", "queued", "error"}

\* C4: every change of a row's state is queued -> in_progress or
\* in_progress -> done, queued or error.
C4_LegalTransitions ==
    [][\A id \in Ids :
          LegalTransition(frontier[id].state, frontier'[id].state)]_vars

\* C5: once a row is done or error, no operation changes its state.
C5_TerminalStates ==
    [][\A id \in Ids :
          frontier[id].state \in {"done", "error"} =>
              frontier'[id].state = frontier[id].state]_vars

\* C6: attempt_count changes only when fetch_and_lock returns the row, then
\* by exactly 1; it never decreases and equals the number of times the row
\* has been claimed.
C6_AttemptCountCountsClaims ==
    /\ [](\A id \in Ids : frontier[id].attempt_count = hist[id].claims)
    /\ [][\A id \in Ids :
             LET before == frontier[id].attempt_count
                 after == frontier'[id].attempt_count
                 returned == \E w \in Workers :
                                FetchReturns(w) /\ id \in ItemIds(items'[w])
             IN  /\ after >= before
                 /\ after = IF returned THEN before + 1 ELSE before]_vars

\* A row has been claimed twice, and finalized in between.
C6_Witness ==
    \E id \in Ids :
        /\ hist[id].claims = 2 /\ frontier[id].attempt_count = 2
        /\ hist[id].errors >= 1

\* C7: the mark_error that completes MAX_ATTEMPTS rounds of claim and
\* mark_error on a row leaves it in state error, and no fetch_and_lock
\* returns the row from then on.
C7_RetryBudget ==
    [][\A id \in Ids :
          /\ (hist[id].errors < MAX_ATTEMPTS /\ hist'[id].errors >= MAX_ATTEMPTS)
                 => frontier'[id].state = "error"
          /\ hist[id].errors >= MAX_ATTEMPTS =>
                 /\ hist'[id].claims = hist[id].claims
                 /\ \A w \in Workers :
                        FetchReturns(w) => id \notin ItemIds(items'[w])]_vars

\* A row has failed MAX_ATTEMPTS times and a worker then fetches without it.
C7_Witness ==
    \E id \in Ids : \E w \in Workers :
        /\ hist[id].errors = MAX_ATTEMPTS
        /\ frontier[id].state = "error"
        /\ pc[w] = "sleep"

\* C8: a row in state error has attempt_count >= MAX_ATTEMPTS, and a
\* mark_error on a row with attempt_count < MAX_ATTEMPTS leaves it queued.
C8_ErrorOnlyWhenExhausted ==
    /\ [](\A id \in Ids :
             frontier[id].state = "error" =>
                 frontier[id].attempt_count >= MAX_ATTEMPTS)
    /\ [][\A id \in Ids :
             (hist'[id].errors > hist[id].errors
                  /\ frontier[id].attempt_count < MAX_ATTEMPTS)
                 => frontier'[id].state = "queued"]_vars

\* One row failed below the budget and is queued, another is in error.
C8_Witness ==
    \E id \in Ids : \E other \in Ids \ {id} :
        /\ frontier[id].state = "queued"
        /\ frontier[id].error_message # NULL
        /\ frontier[id].attempt_count < MAX_ATTEMPTS
        /\ frontier[other].state = "error"

\* The row's lease has run out and its retry budget has not.
LeaseExpired(r) ==
    /\ r.state = "in_progress"
    /\ r.last_attempt > STALE_THRESHOLD_MINUTES
    /\ r.attempt_count < MAX_ATTEMPTS

CanBeClaimed(r) == r.state = "queued" /\ r.attempt_count < MAX_ATTEMPTS

\* C9: when requeue_stale_items has run, every row whose lease had expired
\* with retry budget left is queued, without owner, with its attempt_count,
\* and eligible for the next fetch_and_lock; the worker that held it goes on
\* where it was, with the row still in its hands.
C9_StaleRecovery ==
    [][\A p \in Procs : RequeueReturns(p) =>
          /\ \A id \in Ids : LeaseExpired(frontier[id]) =>
                 /\ frontier'[id].state = "queued"
                 /\ frontier'[id].worker_id = NULL
                 /\ frontier'[id].attempt_count = frontier[id].attempt_count
                 /\ CanBeClaimed(frontier'[id])
          /\ \A w \in Workers \ {p} :
                 pc'[w] = pc[w] /\ todo'[w] = todo[w] /\ cur'[w] = cur[w]]_vars

\* A row was requeued by the reaper and claimed again by another worker
\* while the worker of the first claim still holds it.
C9_Witness ==
    \E id \in Ids : \E w \in Workers : \E v \in Workers \ {w} :
        /\ hist[id].claims = 2 /\ hist[id].errors = 0
        /\ frontier[id].state = "in_progress" /\ frontier[id].worker_id = w
        /\ id \in Held(v) /\ pc[v] = "process"

\* The rows of the table that hold the url.
RowsOf(tbl, url) == {i \in DOMAIN tbl : tbl[i].url = url}

\* C10: no add_urls call raises; after a call there is exactly one row for
\* each url of the call, and every row that was there before is as it was,
\* whatever its state.
C10_IdempotentEnqueue ==
    [][enqueue' # enqueue =>
          /\ ~enqueue'.raised
          /\ \A i \in DOMAIN enqueue'.urls :
                 Cardinality(RowsOf(frontier', enqueue'.urls[i])) = 1
          /\ \A id \in Ids :
                 id \in DOMAIN frontier' /\ frontier'[id] = frontier[id]]_vars

\* C11: an add_urls call with a url that is not yet in the table does not
\* raise and leaves a row for that url with the given score and metadata,
\* state queued, attempt_count 0 and no owner.
C11_AddUrlsCreatesRow ==
    [][enqueue' # enqueue =>
          \A i \in DOMAIN enqueue'.urls :
              ~HasUrl(frontier, enqueue'.urls[i]) =>
                  /\ ~enqueue'.raised
                  /\ \E id \in DOMAIN frontier' :
                         /\ frontier'[id].url = enqueue'.urls[i]
                         /\ frontier'[id].score = enqueue'.score
                         /\ frontier'[id].metadata = Dumps(enqueue'.metadata)
                         /\ frontier'[id].state = "queued"
                         /\ frontier'[id].attempt_count = 0
                         /\ frontier'[id].worker_id = NULL]_vars

\* C12: every row a fetch_and_lock(batch_size) call returns was queued with
\* attempt_count < MAX_ATTEMPTS immediately before the claim, and the call
\* returns at most batch_size rows.
C12_ClaimEligibilityAndBound ==
    [][\A w \in Workers : FetchReturns(w) =>
          /\ Cardinality(items'[w]) <= ClaimBatch(w)
          /\ \A id \in ItemIds(items'[w]) :
                 /\ frontier[id].state = "queued"
                 /\ frontier[id].attempt_count < MAX_ATTEMPTS]_vars

\* A call has returned a full batch and left an eligible row behind.
C12_Witness ==
    \E w \in Workers :
        /\ pc[w] = "process"
        /\ Cardinality(items[w]) = ClaimBatch(w)
        /\ \E id \in Ids \ ItemIds(items[w]) : Eligible(frontier[id])

\* The eligible rows, not locked by another transaction, that w's call
\* leaves unclaimed when it returns.
LeftUnclaimed(w) ==
    {u \in Ids \ locked[w] :
        /\ frontier[u].state = "queued"
        /\ frontier[u].attempt_count < MAX_ATTEMPTS
        /\ \A q \in Procs \ {w} : u \notin locked[q]}

Min(a, b) == IF a < b THEN a ELSE b

\* C13: a fetch_and_lock(batch_size) call claims the first
\* min(batch_size, n) of the n eligible rows no concurrent transaction has
\* locked, by score descending and then id descending: no row it leaves
\* unclaimed outranks a row it claimed.
C13_ClaimOrdering ==
    [][\A w \in Workers : FetchReturns(w) =>
          LET claimed == ItemIds(items'[w])
              left == LeftUnclaimed(w)
          IN  /\ Cardinality(claimed) =
                     Min(ClaimBatch(w), Cardinality(claimed \cup left))
              /\ \A c \in claimed : \A u \in left :
                     \/ frontier[c].score > frontier[u].score
                     \/ /\ frontier[c].score = frontier[u].score
                        /\ c > u]_vars

\* A call has claimed one of two eligible rows of equal score, the later one.
C13_Witness ==
    \E w \in Workers : \E c \in ItemIds(items[w]) : \E u \in Ids \ {c} :
        /\ pc[w] = "process"
        /\ frontier[c].score = frontier[u].score
        /\ Eligible(frontier[u])
        /\ c > u

\* C14: when fetch_and_lock returns, every row it returns is stored with
\* state in_progress, the caller as worker_id, last_attempt now and
\* attempt_count one greater than before; the returned copy carries the
\* stored values (attempt_count 1 for a row never claimed before); every
\* other row is unchanged.
C14_ClaimEffect ==
    [][\A w \in Workers : FetchReturns(w) =>
          \A id \in Ids :
              IF id \in ItemIds(items'[w])
              THEN /\ frontier'[id].state = "in_progress"
                   /\ frontier'[id].worker_id = w
                   /\ frontier'[id].last_attempt = 0
                   /\ frontier'[id].attempt_count =
                          frontier[id].attempt_count + 1
                   /\ \A it \in items'[w] : it.id = id =>
                          /\ it.state = "in_progress"
                          /\ it.worker_id = w
                          /\ it.attempt_count = frontier'[id].attempt_count
                          /\ it.url = frontier'[id].url
                          /\ it.score = frontier'[id].score
                          /\ (frontier[id].attempt_count = 0
                                 => it.attempt_count = 1)
              ELSE frontier'[id] = frontier[id]]_vars

\* A call has returned a row never claimed before and left another row alone.
C14_Witness ==
    \E w \in Workers : \E it \in items[w] :
        /\ pc[w] = "process"
        /\ it.attempt_count = 1
        /\ frontier[it.id].worker_id = w
        /\ Ids \ ItemIds(items[w]) # {}

\* The rows that were eligible when the two calls of RaceSpec started: they
\* still are, or one of the two callers has claimed them.
EligibleAtStart ==
    {id \in Ids :
        \/ Eligible(frontier[id])
        \/ frontier[id].state = "in_progress"
               /\ frontier[id].worker_id \in Workers}

Returned(w) == pc[w] \in {"process", "sleep"}

\* C15: two workers call fetch_and_lock(1) on a table with exactly one
\* eligible row: neither call ever waits for the other's transaction, and
\* when both have returned one of them has that row and the other an empty
\* batch.
C15_OneRowTwoClaimers ==
    Cardinality(EligibleAtStart) = 1 =>
        /\ \A w \in Workers :
               pc[w] = "fetch" => ENABLED fetch_and_lock(w, 1)
        /\ (\A w \in Workers : Returned(w)) =>
               \E w \in Workers :
                   /\ ItemIds(items[w]) = EligibleAtStart
                   /\ \A v \in Workers \ {w} : items[v] = {}

\* Two concurrent calls have returned, one with the only eligible row and
\* one with nothing.
C15_Witness ==
    \E w \in Workers : \E v \in Workers \ {w} :
        /\ Cardinality(EligibleAtStart) = 1
        /\ ConcurrentReturned(w, v)
        /\ ItemIds(items[w]) = EligibleAtStart
        /\ items[v] = {}

\* The step is a failure of w's fetch_and_lock: the exception reaches the
\* handler of worker_loop.
FetchFails(w) == pc[w] = "fetch" /\ pc'[w] = "backoff"

\* C16: when fetch_and_lock fails before its commit, at whatever point, the
\* exception is raised to the caller and the table is as it was before the
\* call: nothing the call wrote is stored, no row is left locked.
C16_AtomicClaimFailure ==
    [][\A w \in Workers : FetchFails(w) =>
          /\ frontier' = frontier
          /\ locked'[w] = {} /\ pending'[w] = NoWrites
          /\ todo'[w] = {}]_vars

\* A fetch_and_lock call has failed over a table with a row to claim, and
\* the row is as it was.
C16_Witness ==
    \E w \in Workers : \E id \in Ids :
        /\ pc[w] = "backoff" /\ items[w] = {}
        /\ Eligible(frontier[id])
        /\ frontier[id].attempt_count = 0

\* The step is the commit of w's mark_error on the row cur[w].
MarkErrorReturns(w) ==
    /\ pc[w] \in {"mark_error", "except"} /\ phase[w] = "commit"
    /\ phase'[w] = "idle" /\ pc'[w] \in {"process", "requeue"}

\* C17: mark_error(id, message) leaves the row in state error if its
\* attempt_count, as stored at the time of the call, is >= MAX_ATTEMPTS, and
\* otherwise queued and eligible for a later claim; either way
\* error_message is message and worker_id is NULL.
C17_MarkErrorDecision ==
    [][\A w \in Workers : MarkErrorReturns(w) =>
          LET before == frontier[cur[w]]
              after == frontier'[cur[w]]
          IN  /\ after.state = IF before.attempt_count >= MAX_ATTEMPTS
                                THEN "error" ELSE "queued"
              /\ after.state = "queued" =>
                     after.attempt_count < MAX_ATTEMPTS
              /\ after.error_message =
                     (IF pc[w] = "mark_error" THEN "Processing failed"
                      ELSE "str(e)")
              /\ after.worker_id = NULL
              /\ after.attempt_count = before.attempt_count]_vars

\* A row is in error after a single mark_error: the reaper had requeued it
\* and a second claim had brought the stored attempt_count to MAX_ATTEMPTS
\* when the call came.
C17_Witness ==
    \E id \in Ids :
        /\ frontier[id].state = "error"
        /\ hist[id].errors = 1
        /\ hist[id].claims = MAX_ATTEMPTS
        /\ frontier[id].worker_id = NULL
        /\ frontier[id].error_message = "Processing failed"

\* The step is the commit of w's mark_done on the row cur[w].
MarkDoneReturns(w) ==
    /\ pc[w] = "mark_done" /\ phase[w] = "commit"
    /\ phase'[w] = "idle" /\ pc'[w] \in {"process", "requeue"}

\* C18: mark_done(id) leaves the row in state done without owner and
\* changes nothing else of it; a call on a row that a mark_done has left
\* done changes nothing at all.
C18_MarkDoneIdempotent ==
    [][\A w \in Workers : MarkDoneReturns(w) =>
          LET before == frontier[cur[w]]
              after == frontier'[cur[w]]
          IN  /\ after.state = "done"
              /\ after.worker_id = NULL
              /\ after = [before EXCEPT !.state = "done", !.worker_id = NULL]
              /\ before.state = "done" => after = before]_vars

\* Two workers held the same row and both have called mark_done on it, one
\* right after the other.
C18_Witness ==
    \E id \in Ids :
        /\ frontier[id].state = "done"
        /\ hist[id].claims = 2 /\ hist[id].errors = 0
        /\ \A w \in Workers : pc[w] # "stopped" /\ id \notin Held(w)

\* The rows the step changes.
Transitioned == {id \in Ids : frontier'[id] # frontier[id]}

\* C19: requeue_stale_items sets to queued, without owner, exactly the rows
\* that are in_progress with last_attempt older than the threshold and
\* attempt_count < MAX_ATTEMPTS when it takes effect; it changes no other
\* row and returns the number of rows it changed.
C19_RequeueExactlyStale ==
    [][\A p \in Procs : RequeueReturns(p) =>
          /\ Transitioned = {id \in Ids : LeaseExpired(frontier[id])}
          /\ \A id \in Transitioned :
                 /\ frontier'[id].state = "queued"
                 /\ frontier'[id].worker_id = NULL
          /\ RQ_Count(p) = Cardinality(Transitioned)]_vars

\* The reaper has requeued one row and left a row that is in_progress alone.
C19_Witness ==
    \E id \in Ids : \E other \in Ids \ {id} :
        /\ frontier[id].state = "queued"
        /\ frontier[id].attempt_count = 1 /\ hist[id].errors = 0
        /\ frontier[other].state = "in_progress"

\* C20: a row that requeue_stale_items requeues becomes queued, without
\* owner, and keeps its attempt_count, last_attempt, score, url, metadata
\* and error_message.
C20_RequeueFrame ==
    [][\A p \in Procs : RequeueReturns(p) =>
          \A id \in Transitioned :
              /\ frontier'[id].state = "queued"
              /\ frontier'[id].worker_id = NULL
              /\ frontier'[id].attempt_count = frontier[id].attempt_count
              /\ frontier'[id].last_attempt = frontier[id].last_attempt
              /\ frontier'[id].score = frontier[id].score
              /\ frontier'[id].url = frontier[id].url
              /\ frontier'[id].metadata = frontier[id].metadata
              /\ frontier'[id].error_message = frontier[id].error_message]_vars

\* A claimed row is queued again with the attempt_count and last_attempt of
\* its claim, while the worker that claimed it still holds it.
C20_Witness ==
    \E id \in Ids : \E w \in Workers :
        /\ frontier[id].state = "queued" /\ frontier[id].worker_id = NULL
        /\ frontier[id].attempt_count = 1 /\ hist[id].claims = 1
        /\ frontier[id].last_attempt > STALE_THRESHOLD_MINUTES
        /\ hist[id].errors = 0
        /\ id \in Held(w)

\* w's process has exited and left the row in_progress in its name.
AbandonedBy(w, r) ==
    /\ pc[w] = "stopped"
    /\ r.state = "in_progress" /\ r.worker_id = w

\* C21: a row that a worker left in_progress when its process exited is no
\* longer in_progress once its lease has expired and requeue_stale_items has
\* run.
C21_NoStuckRowAfterExit ==
    [][\A p \in Procs : RequeueReturns(p) =>
          \A id \in Ids : \A w \in Workers :
              (/\ AbandonedBy(w, frontier[id])
               /\ frontier[id].last_attempt > STALE_THRESHOLD_MINUTES)
              => frontier'[id].state # "in_progress"]_vars

\* The worker's process has not ended.
Running(w) == pc[w] # "stopped"

\* C22: no exception raised by a frontier operation ends the worker loop.
C22_LoopSurvivesStorageErrors ==
    [][\A w \in Workers : Running(w) => Running(w)']_vars

\* Lines 264-273: w is inside the for loop over its batch.
InPass(w) == pc[w] \in {"process", "mark_done", "mark_error", "except"}

\* C23: while items of the batch remain, nothing that happens to the item at
\* hand takes the worker out of the for loop.
C23_PerItemIndependence ==
    [][\A w \in Workers :
          (InPass(w) /\ todo[w] # {}) => InPass(w)']_vars

\* C25: the worker does not reach the mark_error call of the handler at line
\* 273 from a mark_done call, whose item process_item reported as a success.
C25_StorageErrorIsNoTaskFailure ==
    [][\A w \in Workers : pc[w] = "mark_done" => pc'[w] # "except"]_vars

\* w is at a call of requeue_stale_items (line 251 or line 276).
AtRequeue(w) == pc[w] \in {"startup", "requeue"}

\* C26: every worker calls requeue_stale_items again and again.
C26_WorkerReapsForever == \A w \in Workers : []<>AtRequeue(w)

\* The step is the commit of a mark_done or mark_error call of w.
FinalizeReturns(w) ==
    /\ pc[w] \in {"mark_done", "mark_error", "except"}
    /\ phase[w] = "commit"
    /\ phase'[w] = "idle" /\ pc'[w] \in {"process", "requeue"}

\* C24: on a store that does not fail, the item for which process_item
\* returned True (the worker is at line 268) is finalized by mark_done, the
\* item for which it returned False (line 270) or raised (line 273) by
\* mark_error with a message; an item leaves the worker's hands only when its
\* one finalization call returns, and the worker leaves the for loop with no
\* item left.
C24_OutcomeMapping ==
    [][\A w \in Workers :
          /\ FinalizeReturns(w) =>
                 /\ cur[w] \in ItemIds(items[w])
                 /\ IF pc[w] = "mark_done"
                    THEN /\ frontier'[cur[w]].state = "done"
                         /\ hist'[cur[w]].errors = hist[cur[w]].errors
                    ELSE /\ frontier'[cur[w]].state \in {"queued", "error"}
                         /\ frontier'[cur[w]].error_message
                                = (IF pc[w] = "mark_error"
                                   THEN "Processing failed" ELSE "str(e)")
                         /\ hist'[cur[w]].errors = hist[cur[w]].errors + 1
          /\ Held(w)' # Held(w) =>
                 \/ FetchReturns(w) /\ Held(w) = {}
                                    /\ Held(w)' = ItemIds(items'[w])
                 \/ FinalizeReturns(w) /\ Held(w)' = Held(w) \ {cur[w]}
          /\ (InPass(w) /\ ~InPass(w)') =>
                 /\ FinalizeReturns(w)
                 /\ Held(w)' = {}
                 /\ pc'[w] = "requeue"]_vars

\* A worker has been through a batch of two items: process_item raised for
\* one and returned True for the other, and both are finalized.
C24_Witness ==
    \E w \in Workers :
        /\ pc[w] = "requeue" /\ Cardinality(items[w]) = 2
        /\ \E a, b \in ItemIds(items[w]) :
              /\ frontier[a].state = "done" /\ frontier[a].error_message = NULL
              /\ frontier[b].state = "queued"
              /\ frontier[b].error_message = "str(e)"
              /\ hist[a].claims = 1 /\ hist[b].claims = 1

NoneStale(tbl) == \A id \in DOMAIN tbl : ~Stale(tbl[id])

\* C27: calls of requeue_stale_items that run concurrently, or one after the
\* other with nothing in between, do together what one call does: a row
\* changes only from stale to requeued, after which it is not stale, so it
\* changes once; when a call has returned no row is stale; every call returns
\* the number of rows it changed; and a call made when no row is stale changes
\* nothing and returns 0.
C27_RequeueIdempotent ==
    [][/\ \A id \in Ids :
              frontier'[id] # frontier[id] =>
                  /\ Stale(frontier[id])
                  /\ frontier'[id] = Requeued(frontier[id])
                  /\ ~Stale(frontier'[id])
       /\ \A p \in Procs : RequeueReturns(p) =>
              /\ NoneStale(frontier')
              /\ RQ_Count(p) = Cardinality(Transitioned)
              /\ NoneStale(frontier) =>
                     (RQ_Count(p) = 0 /\ frontier' = frontier)]_vars

\* Two calls run concurrently: p has requeued a row and not yet committed,
\* q has selected the same row and waits for it.
C27_Witness ==
    \E p, q \in Procs :
        /\ p # q
        /\ pc[p] \in RequeuePcs /\ phase[p] = "commit"
        /\ pc[q] \in RequeuePcs /\ phase[q] = "exec"
        /\ Head(cand[q]) \in DOMAIN pending[p]

\* p's statement cannot go on before q's transaction ends: the UPDATE of
\* requeue_stale_items has come to a row q holds locked, or the UPDATE of
\* mark_done / mark_error is for such a row.
WaitsFor(p, q) ==
    \/ /\ pc[p] \in RequeuePcs /\ phase[p] = "exec"
       /\ cand[p] # <<>> /\ Head(cand[p]) \in locked[q]
    \/ /\ p \in Workers
       /\ pc[p] \in {"mark_done", "mark_error", "except"} /\ phase[p] = "idle"
       /\ cur[p] \in locked[q]

\* Every transaction of S waits for another one of S.
Deadlocked(S) ==
    /\ S # {}
    /\ \A p \in S : \E q \in S \ {p} : WaitsFor(p, q)

\* A fetch_and_lock call under way can take its next step whatever the other
\* transactions hold.
FetchNeverWaits ==
    \A w \in Workers : InFetch(w) => ENABLED fetch_and_lock(w, BATCH_SIZE)

\* C30 as stated: no transactions wait for each other, and fetch_and_lock
\* never waits for a row lock.
C30_DeadlockFree ==
    /\ \A S \in SUBSET Procs : ~Deadlocked(S)
    /\ FetchNeverWaits

\* C30: fetch_and_lock never waits for a row lock, mark_done and mark_error
\* wait holding no lock, and transactions that wait for each other are all
\* calls of requeue_stale_items.
C30_NoDeadlockWithClaimEngine ==
    /\ FetchNeverWaits
    /\ \A p \in Workers, q \in Procs :
           (pc[p] \in {"mark_done", "mark_error", "except"} /\ WaitsFor(p, q))
           => locked[p] = {}
    /\ \A S \in SUBSET Procs :
           Deadlocked(S) => \A p \in S : pc[p] \in RequeuePcs

\* A requeue_stale_items call waits for a row that a fetch_and_lock call has
\* locked, while a second fetch_and_lock call is under way.
C30_Witness ==
    \E p \in Procs : \E w, v \in Workers :
        /\ w # v /\ p # w
        /\ InFetch(w) /\ WaitsFor(p, w)
        /\ InFetch(v)

RECURSIVE SumOfCounts(_, _)
SumOfCounts(mapping, S) ==
    IF S = {} THEN 0
    ELSE LET s == CHOOSE x \in S : TRUE
         IN  mapping[s].count + SumOfCounts(mapping, S \ {s})

\* C28: get_stats reports exactly the states that have a row, each with the
\* number of rows in it; the counts add up to the number of rows; for a table
\* of one row that was claimed once and marked done it reports done with
\* count 1 and nothing else.
C28_StatsExact ==
    /\ DOMAIN get_stats = {frontier[id].state : id \in Ids}
    /\ \A s \in DOMAIN get_stats :
           /\ get_stats[s].state = s
           /\ get_stats[s].count
                  = Cardinality({id \in Ids : frontier[id].state = s})
           /\ get_stats[s].count >= 1
    /\ SumOfCounts(get_stats, DOMAIN get_stats) = Len(frontier)
    /\ (Len(frontier) = 1 /\ frontier[1].state = "done" /\ hist[1].claims = 1)
           => (DOMAIN get_stats = {"done"} /\ get_stats["done"].count = 1)

\* One key was enqueued, claimed once and marked done, and get_stats reports
\* done with count 1.
C28_Witness ==
    /\ Len(frontier) = 1 /\ hist[1].claims = 1 /\ hist[1].errors = 0
    /\ DOMAIN get_stats = {"done"}
    /\ get_stats["done"].count = 1 /\ get_stats["done"].max_attempts = 1

\* C29: no step removes a row or gives an id another key: the table only
\* grows, and every row keeps its id and its url.
C29_RowsNeverDeleted ==
    [][/\ Len(frontier') >= Len(frontier)
       /\ \A id \in Ids : frontier'[id].url = frontier[id].url]_vars

\* A row has been through claim, failure, requeue by the reaper and done
\* beside a second row that arrived later.
C29_Witness ==
    /\ Len(frontier) = 2
    /\ frontier[1].url = 1 /\ frontier[2].url = 2
    /\ frontier[1].state = "done" /\ hist[1].claims = 2 /\ hist[1].errors = 1
    /\ hist[2].claims >= 1

\* The watchdog's steps are steps of requeue_stale_items and of its timer.
WatchdogPcs == {"wd_requeue", "wd_sleep"}

\* C31: the watchdog process is only ever at its requeue_stale_items call or
\* at its timer, it changes rows only by requeueing them, and with no
\* operator to interrupt it, it does not end: after every sleep comes the
\* next call.
C31_WatchdogOnlyReaps ==
    [][/\ pc[Watchdog] \in WatchdogPcs => pc'[Watchdog] \in WatchdogPcs
       /\ (pc[Watchdog] = "wd_requeue" /\ phase[Watchdog] = "commit"
              /\ phase'[Watchdog] = "idle") =>
              \A id \in Transitioned :
                  frontier'[id] = Requeued(frontier[id])]_vars

\* The row is in_progress and has used up its attempts.
Exhausted(r) == r.state = "in_progress" /\ r.attempt_count >= MAX_ATTEMPTS

\* C32: a row that is in_progress with attempt_count >= MAX_ATTEMPTS is left
\* as it is by every requeue_stale_items call, however old its last_attempt;
\* nothing but a mark_done or mark_error call on it changes it (its lease only
\* grows older).
C32_ExhaustedNeverReaped ==
    [][\A id \in Ids : Exhausted(frontier[id]) =>
          /\ (\E p \in Procs : RequeueReturns(p)) =>
                 frontier'[id] = frontier[id]
          /\ frontier'[id] \notin {frontier[id], Aged(frontier[id])} =>
                 \E w \in Workers : FinalizeReturns(w) /\ cur[w] = id]_vars

\* A requeue_stale_items call is about to commit and has passed over a row
\* that is in_progress on its last attempt, its lease expired, and that no
\* running worker holds.
C32_Witness ==
    \E p \in Procs : \E id \in Ids :
        /\ pc[p] \in RequeuePcs /\ phase[p] = "commit"
        /\ Exhausted(frontier[id])
        /\ frontier[id].last_attempt > STALE_THRESHOLD_MINUTES
        /\ id \notin DOMAIN pending[p]
        /\ \A w \in Workers : id \notin Held(w)

\* C33: mark_done and mark_error write the row with the given id whatever its
\* state and its owner are when the call comes: the row the call leaves is
\* the SET clause applied to the row as it was, also when the row has been
\* requeued, claimed by another worker or finalized by it in the meantime.
C33_UnfencedFinalization ==
    [][\A w \in Workers : FinalizeReturns(w) =>
          frontier'[cur[w]] =
              IF pc[w] = "mark_done" THEN Done(frontier[cur[w]], NULL)
              ELSE Failed(frontier[cur[w]], Message(w))]_vars

\* A worker holds a row by the latest claim of it (its copy carries the
\* attempt_count of that claim), and the row is already done, without owner:
\* the worker that held it before, its lease expired and the row requeued,
\* has called mark_done since.
C33_Witness ==
    \E w \in Workers : \E it \in items[w] :
        /\ it.id \in Held(w)
        /\ it.worker_id = w
        /\ it.attempt_count = hist[it.id].claims
        /\ hist[it.id].claims = 2
        /\ frontier[it.id].state = "done"
        /\ frontier[it.id].worker_id = NULL

\* C34: a row has a worker_id exactly while it is in_progress, and the
\* worker_id is then the worker to which fetch_and_lock returned the row
\* last.
C34_OwnerTracksLease ==
    \A id \in Ids :
        /\ frontier[id].worker_id # NULL <=> frontier[id].state = "in_progress"
        /\ frontier[id].worker_id # NULL =>
               hist[id].holders = {frontier[id].worker_id}

\* Two workers hold the same row, claimed twice: it is in_progress in the
\* name of the one that claimed it last, not of the one whose lease expired.
C34_Witness ==
    \E id \in Ids : \E w \in Workers : \E v \in Workers \ {w} : \E it \in items[w] :
        /\ frontier[id].state = "in_progress"
        /\ frontier[id].worker_id = w
        /\ hist[id].claims = 2
        /\ it.id = id /\ it.attempt_count = 2
        /\ id \in Held(w) /\ id \in Held(v)

\* C35: a row's attempt_count is always between 0 and MAX_ATTEMPTS, and
\* fetch_and_lock has returned the row (to any worker, across crashes and
\* requeues) at most MAX_ATTEMPTS times.
C35_BoundedRetries ==
    \A id \in Ids :
        /\ frontier[id].attempt_count \in 0..MAX_ATTEMPTS
        /\ hist[id].claims <= MAX_ATTEMPTS

\* A row has been claimed MAX_ATTEMPTS times and is in error; no row is left
\* to claim, and a worker whose fetch_and_lock came back empty sleeps.
C35_Witness ==
    \E id \in Ids : \E w \in Workers :
        /\ frontier[id].attempt_count = MAX_ATTEMPTS
        /\ hist[id].claims = MAX_ATTEMPTS
        /\ frontier[id].state = "error"
        /\ pc[w] = "sleep"
        /\ \A i \in Ids : ~Eligible(frontier[i])

\* C36: a queued row has attempt_count < MAX_ATTEMPTS: it passes the WHERE
\* clause of fetch_and_lock.
C36_NoStrandedQueuedRow ==
    \A id \in Ids :
        frontier[id].state = "queued" =>
            /\ frontier[id].attempt_count < MAX_ATTEMPTS
            /\ Eligible(frontier[id])

\* A row is queued on its last attempt but one: it has been claimed
\* MAX_ATTEMPTS - 1 times, and the latest mark_error has sent it back.
C36_Witness ==
    \E id \in Ids :
        /\ frontier[id].state = "queued"
        /\ frontier[id].attempt_count = MAX_ATTEMPTS - 1
        /\ hist[id].errors = MAX_ATTEMPTS - 1
        /\ frontier[id].error_message # NULL

\* The row has a last_attempt exactly if it has been claimed, and has one
\* if it is in_progress.
Timestamped(r) ==
    /\ r.last_attempt # NO_TIME <=> r.attempt_count > 0
    /\ r.state = "in_progress" => r.last_attempt # NO_TIME

\* C37: every row has a last_attempt exactly if its attempt_count > 0, and
\* every in_progress row has one; last_attempt is written by fetch_and_lock
\* only, which sets it to the time of the claim: any other step that changes
\* its age is the passing of time.
C37_LeaseTimestamp ==
    [][/\ \A id \in DOMAIN frontier' : Timestamped(frontier'[id])
       /\ \A id \in Ids :
              frontier'[id].last_attempt # frontier[id].last_attempt =>
                  \/ \E w \in Workers :
                         /\ FetchReturns(w)
                         /\ id \in ItemIds(items'[w])
                         /\ frontier'[id].last_attempt = 0
                  \/ /\ frontier'[id] = Aged(frontier[id])
                     /\ UNCHANGED <<pc, phase, pending>>]_vars

\* A row claimed for the second time carries the time of that claim, not the
\* old one, beside a row never claimed, which has no last_attempt.
C37_Witness ==
    \E id \in Ids : \E other \in Ids \ {id} :
        /\ frontier[id].state = "in_progress"
        /\ frontier[id].last_attempt = 0
        /\ hist[id].claims = 2
        /\ frontier[other].attempt_count = 0
        /\ frontier[other].last_attempt = NO_TIME

\* C38: no step of fetch_and_lock, mark_done, mark_error or
\* requeue_stale_items (nor any other step) changes a row's url, score or
\* metadata; mark_done leaves attempt_count, last_attempt and error_message
\* as they were, and the row it leaves is the same whatever metadata argument
\* it is called with: the stored metadata is not replaced by the argument.
C38_PayloadFrame ==
    [][/\ \A id \in Ids :
              /\ frontier'[id].url = frontier[id].url
              /\ frontier'[id].score = frontier[id].score
              /\ frontier'[id].metadata = frontier[id].metadata
       /\ \A w \in Workers : MarkDoneReturns(w) =>
              LET before == frontier[cur[w]]
                  after == frontier'[cur[w]]
              IN  /\ after.attempt_count = before.attempt_count
                  /\ after.last_attempt = before.last_attempt
                  /\ after.error_message = before.error_message
                  /\ \A metadata \in MetadataArgs :
                         /\ Done(before, metadata) = after
                         /\ Done(before, metadata).metadata = before.metadata]_vars

\* A row of score MaxScore that failed once and was then claimed again is
\* done: it keeps the error_message of its failure, the attempt_count and
\* the last_attempt of its second claim, and its url, score and metadata.
C38_Witness ==
    \E id \in Ids :
        /\ frontier[id].state = "done"
        /\ hist[id].claims = 2 /\ hist[id].errors = 1
        /\ frontier[id] = [NewRow(id, MaxScore, NULL) EXCEPT
                              !.state = "done",
                              !.error_message = "Processing failed",
                              !.attempt_count = 2,
                              !.last_attempt = 0]

\* C39: a get_stats call never raises; when the store fails it, it returns
\* the empty mapping, which is what it returns for a table without rows; it
\* leaves the table as it is.
C39_GetStatsNeverRaises ==
    [][stats' # stats =>
          /\ ~stats'.raised
          /\ frontier' = frontier
          /\ stats'.failed # "none" =>
                 /\ stats'.result = EmptyMapping
                 /\ stats'.result = StatsOf(<<>>)]_vars

====
